---- MODULE Spec2Model ----
(***************************************************************************)
(* Model of icechunk-python/python/icechunk/xarray.py: the writer that     *)
(* declares a dataset's metadata in an Icechunk store, writes in-memory    *)
(* variables directly (eager phase) and chunked variables through          *)
(* independent chunk tasks whose stores are tree-reduced with merge_stores *)
(* and merged once into the canonical store (lazy phase).                  *)
(***************************************************************************)
EXTENDS Integers, Sequences, FiniteSets, TLC

\* ------------------------------------------------------------------ bounds
MaxVars == 3       \* variables of the dataset handed to the writer
MaxItems == 5      \* chunk tasks of a reduction that is studied alone
MaxChunks == 6     \* chunk tasks of a reduction whose levels are studied
MaxLevels == 3     \* levels of the tree reduction that are explored

\* The branching factor stateful_store_reduce uses when split_every is None.
DefaultSplitEvery == 8

\* The target locations a store can hold: one per variable or chunk.
Max(a, b) == IF a > b THEN a ELSE b
MaxLoc == Max(MaxVars, Max(MaxItems, MaxChunks))
Locs == 1..MaxLoc
NoVal == 0         \* no pending write at a location

\* The data of the dataset's variable named l, and the data an already used
\* store holds at l: opaque values, distinct from each other and from NoVal.
ValueOf(l) == MaxLoc + l
OldValueOf(l) == MaxLoc + MaxLoc + l
NoSplit == 0       \* split_every = None

Min(a, b) == IF a < b THEN a ELSE b

\* ------------------------------------------------------------------ stores
\* A store handle: whether it holds the group, the arrays whose metadata is
\* pending and the pending data written at each location (NoVal: nothing
\* written).
EmptyStore == [group |-> FALSE, meta |-> {}, data |-> [l \in Locs |-> NoVal]]

\* A store handle that already carries pending writes from earlier work.
OldStore ==
    [group |-> TRUE, meta |-> Locs, data |-> [l \in Locs |-> OldValueOf(l)]]

\* mode = None
NoMode == "None"

\* The mode arguments of write_metadata; neither append_dim nor region is
\* given.
ModeArgs == {NoMode, "w", "w-", "a", "a-", "r+"}

\* _choose_default_mode with neither append_dim nor region: "w-" by default.
choose_default_mode(m) == IF m = NoMode THEN "w-" ELSE m

\* The modes ZarrStore.open_group may take the argument m for: write_metadata
\* hands it the argument as given, and a None is taken as the documented
\* default or as a plain open-or-create.
open_modes(m) == IF m = NoMode THEN {"w-", "a"} ELSE {m}

\* ZarrStore.open_group on the store st in mode m: "w" creates the group and
\* overwrites what exists, "w-" creates it and fails if it exists, "r+" opens
\* what exists and fails if the group does not exist, "a" and "a-" keep what
\* exists and create the group if it does not exist.
open_group(st, m) ==
    IF m = "w"
    THEN [ok |-> TRUE, store |-> [EmptyStore EXCEPT !.group = TRUE]]
    ELSE IF (m = "w-" /\ st.group) \/ (m = "r+" /\ ~st.group)
    THEN [ok |-> FALSE, store |-> st]
    ELSE [ok |-> TRUE, store |-> [st EXCEPT !.group = TRUE]]

\* Whether dump_to_store may create and add the first k variables of ds in
\* the store st opened in mode m: "r+" modifies existing arrays only and
\* raises when metadata would change.
dump_allowed(m, st, ds, k) ==
    m = "r+" => \A i \in 1..k : ds[i].name \in st.meta

\* target[region or ...] = source : a write of one value at one location.
SetItem(st, target, source) == [st EXCEPT !.data[target] = source.val]

\* Creating the array of a variable (its zarr.json) in the store.
CreateArray(st, target) == [st EXCEPT !.meta = @ \cup {target}]

\* IcechunkStore.change_set_bytes: the handle's pending mutations, detached
\* from the handle as a set of entries.
change_set_bytes(st) ==
    [group |-> st.group,
     arrays |-> st.meta,
     chunks |-> {<<l, st.data[l]>> : l \in {x \in Locs : st.data[x] # NoVal}}]

\* IcechunkStore.merge: re-attach a change-set on top of the handle's own
\* pending mutations; an entry of the change-set replaces the handle's.
merge(st, cs) ==
    [group |-> st.group \/ cs.group,
     meta |-> st.meta \cup cs.arrays,
     data |-> [l \in Locs |->
                 IF \E p \in cs.chunks : p[1] = l
                 THEN (CHOOSE p \in cs.chunks : p[1] = l)[2]
                 ELSE st.data[l]]]

VARIABLES
    has_dask,     \* the module's has_dask: `import dask` succeeded
    mode,         \* XarrayDatasetWriter.mode, set by write_metadata
    dataset,      \* XarrayDatasetWriter.dataset: sequence of variables
    store,        \* XarrayDatasetWriter.store: the canonical store handle
    initialized,  \* XarrayDatasetWriter._initialized
    writer,       \* XarrayDatasetWriter.writer: the LazyArrayWriter's lists
    entry,        \* "api": the writer's methods are called; "to_icechunk"
    hint,         \* the split_every argument given to to_icechunk
    pc,           \* position of the caller
    split,        \* split_every in effect inside stateful_store_reduce
    tasks,        \* stored_arrays: one chunk task per deferred source
    handles,      \* the store handles derived for the chunk tasks
    items,        \* the current level of the tree reduction (handle ids)
    level,        \* number of reduction levels performed
    lastop,       \* the last method called and how it ended
    stats,        \* calls counted since the current call / write began
    eager_done,   \* write_eager completed since the last write_metadata call
    before,       \* the canonical store as it was when the running call began
    store0,       \* the canonical store the writer was constructed with
    ran           \* what has run since the last write_metadata call

vars == <<has_dask, mode, dataset, store, initialized, writer, entry, hint, pc, split, tasks,
          handles, items, level, lastop, stats, eager_done, before, store0,
          ran>>

\* ------------------------------------------------------------------ writer
\* LazyArrayWriter.__init__: empty lists (regions are always None here: every
\* variable is written whole).
NewWriter == [exists |-> TRUE, sources |-> <<>>, targets |-> <<>>,
              eager_sources |-> <<>>, eager_targets |-> <<>>]

\* The writer attribute before write_metadata has set it: the field has no
\* default and an access raises AttributeError.
NoWriter == [NewWriter EXCEPT !.exists = FALSE]

\* dask.base.is_dask_collection
is_dask_collection(x) == x.chunked

is_chunked_array(x) == IF has_dask THEN is_dask_collection(x) ELSE FALSE

\* add without its else: a chunked source is also queued as an eager write.
add_also_eager(w, source, target) ==
    LET e == [w EXCEPT !.eager_sources = Append(@, source),
                       !.eager_targets = Append(@, target)]
    IN  IF is_chunked_array(source)
        THEN [e EXCEPT !.sources = Append(@, source), !.targets = Append(@, target)]
        ELSE e

\* LazyArrayWriter.add
add(w, source, target) ==
    IF is_chunked_array(source)
    THEN [w EXCEPT !.sources = Append(@, source), !.targets = Append(@, target)]
    ELSE [w EXCEPT !.eager_sources = Append(@, source),
                   !.eager_targets = Append(@, target)]

\* dump_to_store over the first k variables of ds: each variable's array is
\* created in the store, then handed to the writer with add.
RECURSIVE dump_to_store(_, _, _, _)
dump_to_store(st, w, ds, k) ==
    IF k = 0 THEN [store |-> st, writer |-> w]
    ELSE LET r == dump_to_store(st, w, ds, k - 1)
             v == ds[k]
         IN  [store |-> CreateArray(r.store, v.name),
              writer |-> add(r.writer, [val |-> v.val, chunked |-> v.chunked], v.name)]

\* The loop of LazyArrayWriter.write_eager over the first k zipped entries.
RECURSIVE EagerLoop(_, _, _)
EagerLoop(st, w, k) ==
    IF k = 0 THEN st
    ELSE SetItem(EagerLoop(st, w, k - 1), w.eager_targets[k], w.eager_sources[k])

\* write_eager without the reset of its lists.
write_eager_not_drained(st, w) ==
    [store |-> EagerLoop(st, w, Len(w.eager_sources)), writer |-> w]

\* write_eager that resets its lists also when a write raises.
write_eager_raised_drained(st, w, k) ==
    [store |-> EagerLoop(st, w, k),
     writer |-> [w EXCEPT !.eager_sources = <<>>, !.eager_targets = <<>>]]

\* LazyArrayWriter.write_eager when the write of entry k + 1 raises: the
\* first k entries are written and the reset of the lists is not reached.
write_eager_raised(st, w, k) ==
    [store |-> EagerLoop(st, w, k), writer |-> w]

\* write_eager that resets the lists of the deferred writes as well.
write_eager_drains_all(st, w) ==
    [store |-> EagerLoop(st, w, Len(w.eager_sources)), writer |-> NewWriter]

\* LazyArrayWriter.write_eager, run to its end: every eager entry is written
\* and the three eager lists are reset.
LazyArrayWriter_write_eager(st, w) ==
    [store |-> EagerLoop(st, w, Len(w.eager_sources)),
     writer |-> [w EXCEPT !.eager_sources = <<>>, !.eager_targets = <<>>]]

\* ------------------------------------------------------------------ reduction
\* Chunk tasks that all write through one handle.
spawn_tasks_shared(w) ==
    [i \in 1..Len(w.sources) |->
        [status |-> "pending", source |-> w.sources[i], target |-> w.targets[i],
         store |-> 1]]

\* writer.sync(compute=False): one chunk task per deferred source, each with a
\* store handle of its own (named by its id) that its target array writes to.
spawn_tasks(w) ==
    [i \in 1..Len(w.sources) |->
        [status |-> "pending", source |-> w.sources[i], target |-> w.targets[i],
         store |-> i]]

\* The write a chunk task performs, into the handle h derived for it.
chunk_write(h, task) == SetItem(h, task.target, task.source)

extract_stores(zarray) == zarray.store

\* The body of merge_stores' loop: each of rest is merged into the primary
\* handle, in order; calls counts the store.merge calls made.
RECURSIVE MergeLoop(_, _, _)
MergeLoop(h, primary, rest) ==
    IF rest = <<>> THEN [heap |-> h, calls |-> 0]
    ELSE LET h1 == [h EXCEPT ![primary] =
                        merge(h[primary], change_set_bytes(h[Head(rest)]))]
             r == MergeLoop(h1, primary, Tail(rest))
         IN  [heap |-> r.heap, calls |-> r.calls + 1]

\* merge_stores that stops after the first of the others.
merge_stores_first_only(h, stores) ==
    LET primary == Head(stores)
        rest == Tail(stores)
        r == MergeLoop(h, primary, IF rest = <<>> THEN rest ELSE <<Head(rest)>>)
    IN  [heap |-> r.heap, ret |-> primary, calls |-> r.calls]

\* merge_stores that loops over all its arguments, the primary included.
merge_stores_self(h, stores) ==
    LET primary == Head(stores)
        r == MergeLoop(h, primary, stores)
    IN  [heap |-> r.heap, ret |-> primary, calls |-> r.calls]

\* merge_stores that empties every store it has merged.
merge_stores_consuming(h, stores) ==
    LET primary == Head(stores)
        rest == Tail(stores)
        r == MergeLoop(h, primary, rest)
    IN  [heap |-> [id \in DOMAIN h |->
                     IF \E k \in 1..Len(rest) : rest[k] = id
                     THEN EmptyStore ELSE r.heap[id]],
         ret |-> primary, calls |-> r.calls]

\* merge_stores that returns the last of its arguments instead of the first.
merge_stores_returns_last(h, stores) ==
    LET primary == Head(stores)
        rest == Tail(stores)
        r == MergeLoop(h, primary, rest)
    IN  [heap |-> r.heap, ret |-> stores[Len(stores)], calls |-> r.calls]

\* merge_stores(*stores): handles are named by their ids in the heap h; the
\* first one is mutated in place and returned.
merge_stores(h, stores) ==
    LET primary == Head(stores)
        rest == Tail(stores)
        r == MergeLoop(h, primary, rest)
    IN  [heap |-> r.heap, ret |-> primary, calls |-> r.calls]

\* A partition into groups of one, whatever the branching factor.
partition_all_singletons(n, seq) == [g \in 1..Len(seq) |-> <<seq[g]>>]

\* partition_all(n, seq): contiguous groups of at most n items, in input order.
partition_all(n, seq) ==
    [g \in 1..((Len(seq) + n - 1) \div n) |->
        SubSeq(seq, (g - 1) * n + 1, Min(g * n, Len(seq)))]

\* One level of the tree reduction: every group is combined by one call of
\* the aggregate function.
RECURSIVE ReduceGroups(_, _)
ReduceGroups(h, groups) ==
    IF groups = <<>> THEN [heap |-> h, items |-> <<>>, combines |-> 0, merges |-> 0]
    ELSE LET m == merge_stores(h, Head(groups))
             r == ReduceGroups(m.heap, Tail(groups))
         IN  [heap |-> r.heap, items |-> <<m.ret>> \o r.items,
              combines |-> r.combines + 1, merges |-> r.merges + m.calls]

\* ------------------------------------------------------------------ caller
\* merge: store.merge calls on the canonical store; reducer: calls of
\* stateful_store_reduce; combine: calls of merge_stores; inner: store.merge
\* calls made by merge_stores; spawned / done: chunk tasks created / completed;
\* writes: values written directly into the canonical store.
ZeroStats == [merge |-> 0, reducer |-> 0, combine |-> 0, inner |-> 0,
              spawned |-> 0, done |-> 0, writes |-> 0]

\* Calls are counted per method call when the methods are called one by one,
\* and over the whole write inside to_icechunk.
StartStats == IF entry = "api" THEN ZeroStats ELSE stats

\* to_icechunk calls write_metadata, write_eager, write_lazy in this order;
\* a method of the writer can be called whenever no call is running.
CanCall(name) ==
    IF entry = "api" THEN pc = "idle"
    ELSE \/ name = "write_metadata" /\ pc = "ti_metadata"
         \/ name = "write_eager" /\ pc = "ti_eager"
         \/ name = "write_lazy" /\ pc = "ti_lazy"

\* A to_icechunk that goes on with the next call when a call raised.
After_swallowed(name, ok) ==
    IF entry = "api" THEN "idle"
    ELSE IF name = "write_metadata" THEN "ti_eager"
    ELSE IF name = "write_eager" THEN "ti_lazy"
    ELSE IF ok THEN "returned" ELSE "raised"

\* Where the caller stands once the method `name` returned (ok) or raised.
After(name, ok) ==
    IF entry = "api" THEN "idle"
    ELSE IF ~ok THEN "raised"
    ELSE IF name = "write_metadata" THEN "ti_eager"
    ELSE IF name = "write_eager" THEN "ti_lazy"
    ELSE "returned"

\* The split_every a caller passes to write_lazy: any value when the method
\* is called directly; to_icechunk passes none.
SplitEveryArgs == IF entry = "api" THEN 0..MaxVars ELSE {NoSplit}

\* The split_every arguments to_icechunk is called with: none, or groups of two.
Hints == {NoSplit, 1 + 1}

\* The datasets: up to MaxVars variables, each in memory or chunked.
Datasets ==
    UNION {[1..n -> [chunked : BOOLEAN]] : n \in 0..MaxVars}

\* Nothing has run: declared, the last write_metadata call ran to its end;
\* lazy, how the write_lazy calls since then ended ("no": none was made; "ok":
\* all returned; "failed": one raised); ever, a write_metadata call has run
\* to its end on this writer.
NothingRan == [declared |-> FALSE, lazy |-> "no", ever |-> FALSE]

\* The record once a write_metadata call has returned (ok) or raised.
Declared(r, ok) ==
    [NothingRan EXCEPT !.declared = ok, !.ever = r.ever \/ ok]

\* The record once the phase `name` has completed.
Completed(r, name) ==
    IF r.declared /\ name = "lazy" /\ r.lazy # "failed"
    THEN [r EXCEPT !.lazy = "ok"]
    ELSE r

\* The record once a write_lazy call has raised.
Failed(r) == IF ~r.declared THEN r ELSE [r EXCEPT !.lazy = "failed"]

\* The writer as constructed: to_icechunk passes the dataset and the store;
\* the generated __init__ also takes _initialized.
Init ==
    /\ has_dask \in BOOLEAN
    /\ mode = NoMode
    /\ \E d \in Datasets :
          dataset = [i \in 1..Len(d) |->
                        [name |-> i, val |-> ValueOf(i), chunked |-> d[i].chunked]]
    /\ store \in {EmptyStore, OldStore}
    /\ entry \in {"api", "to_icechunk"}
    /\ hint \in (IF entry = "api" THEN {NoSplit} ELSE Hints)
    /\ pc = IF entry = "api" THEN "idle" ELSE "ti_metadata"
    /\ initialized \in (IF entry = "api" THEN BOOLEAN ELSE {FALSE})
    /\ writer = NoWriter
    /\ split = NoSplit
    /\ tasks = <<>>
    /\ handles = <<>>
    /\ items = <<>>
    /\ level = 0
    /\ lastop = [name |-> "none", result |-> "none"]
    /\ stats = ZeroStats
    /\ eager_done = FALSE
    /\ before = store
    /\ store0 = store
    /\ ran = NothingRan

\* `if not self._initialized: raise ValueError(...)` of write_eager, write_lazy.
write_eager_not_initialized == ~initialized

write_lazy_not_initialized == ~initialized

\* write_lazy without its early return.
no_sources_ignored(w) == FALSE

\* `self.writer` of write_eager and write_lazy: AttributeError when
\* write_metadata has not set the attribute.
no_writer(w) == ~w.exists

\* `if not self.writer.sources: return` of write_lazy.
no_sources(w) == w.sources = <<>>

\* write_lazy without its last line.
write_lazy_merge_dropped(st, merged_store) == [store |-> st, calls |-> 0]

\* write_lazy that merges the reduced change-set twice.
write_lazy_merge_twice(st, merged_store) ==
    [store |-> merge(merge(st, change_set_bytes(merged_store)),
                     change_set_bytes(merged_store)),
     calls |-> 2]

\* write_lazy that takes the reduced store as the canonical one.
write_lazy_merge_replaced(st, merged_store) == [store |-> merged_store, calls |-> 1]

\* `self.store.merge(merged_store.change_set_bytes())`: the one statement of
\* write_lazy that touches the canonical store; calls counts its merge calls.
write_lazy_merge(st, merged_store) ==
    [store |-> merge(st, change_set_bytes(merged_store)), calls |-> 1]

\* write_lazy that merges, before it re-raises, the handles that exist.
on_reduce_error_merges(st, h) ==
    IF h = <<>> THEN st ELSE merge(st, change_set_bytes(h[1]))

\* What write_lazy does to the canonical store when the computation raises:
\* the exception leaves write_lazy before its last line, the handles h of the
\* chunk tasks are not looked at.
on_reduce_error(st, h) == st

\* XarrayDatasetWriter.write_metadata. The validation of the names may
\* raise before anything is done; the mode is recorded; open_group then acts
\* on the canonical store in the given mode, or raises and leaves it; the
\* validations after it may raise; the writer is replaced and dump_to_store
\* may raise at any variable or at its end, after the arrays of the variables
\* before it were created and added.
WriteMetadata ==
    /\ CanCall("write_metadata")
    /\ stats' = StartStats
    /\ UNCHANGED <<has_dask, dataset, entry, hint, split, tasks, handles, items,
                   level, store0>>
    /\ \/ /\ lastop' = [name |-> "write_metadata", result |-> "MetadataError"]
          /\ pc' = After("write_metadata", FALSE)
          /\ ran' = Declared(ran, FALSE)
          /\ UNCHANGED <<mode, store, writer, initialized>>
       \/ \E m \in ModeArgs : \E e \in open_modes(m) :
            LET o == open_group(store, e) IN
            /\ mode' = choose_default_mode(m)
            /\ \/ /\ lastop' = [name |-> "write_metadata",
                                result |-> "MetadataError"]
                  /\ pc' = After("write_metadata", FALSE)
                  /\ ran' = Declared(ran, FALSE)
                  /\ UNCHANGED <<store, writer, initialized>>
               \/ /\ o.ok
                  /\ store' = o.store
                  /\ lastop' = [name |-> "write_metadata",
                                result |-> "MetadataError"]
                  /\ pc' = After("write_metadata", FALSE)
                  /\ ran' = Declared(ran, FALSE)
                  /\ UNCHANGED <<writer, initialized>>
               \/ /\ o.ok
                  /\ \E k \in 0..Len(dataset) : \E ok \in BOOLEAN :
                       LET r == dump_to_store(o.store, NewWriter, dataset, k)
                       IN  /\ ok => k = Len(dataset)
                           /\ dump_allowed(e, o.store, dataset, k)
                           /\ store' = r.store
                           /\ writer' = r.writer
                           /\ initialized' = (initialized \/ ok)
                           /\ lastop' = [name |-> "write_metadata",
                                         result |-> IF ok THEN "ok"
                                                    ELSE "MetadataError"]
                           /\ pc' = After("write_metadata", ok)
                           /\ ran' = Declared(ran, ok)
    /\ before' = store'
    /\ eager_done' = FALSE

\* XarrayDatasetWriter.write_eager. The write of any eager entry may raise,
\* after the entries before it were written.
WriteEager ==
    /\ CanCall("write_eager")
    /\ UNCHANGED <<has_dask, mode, dataset, entry, hint, split, tasks, handles,
                   items, level, initialized, store0>>
    /\ IF write_eager_not_initialized
       THEN /\ lastop' = [name |-> "write_eager", result |-> "ValueError"]
            /\ pc' = After("write_eager", FALSE)
            /\ stats' = StartStats
            /\ UNCHANGED <<store, writer, eager_done, ran>>
       ELSE IF no_writer(writer)
       THEN /\ lastop' = [name |-> "write_eager", result |-> "AttributeError"]
            /\ pc' = After("write_eager", FALSE)
            /\ stats' = StartStats
            /\ UNCHANGED <<store, writer, eager_done, ran>>
       ELSE \E k \in 0..Len(writer.eager_sources) :
              LET ok == k = Len(writer.eager_sources)
                  r == IF ok THEN LazyArrayWriter_write_eager(store, writer)
                       ELSE write_eager_raised(store, writer, k)
              IN  /\ store' = r.store
                  /\ writer' = r.writer
                  /\ stats' = [StartStats EXCEPT !.writes = @ + k]
                  /\ lastop' = [name |-> "write_eager",
                                result |-> IF ok THEN "ok" ELSE "WriteError"]
                  /\ pc' = After("write_eager", ok)
                  /\ eager_done' = (eager_done \/ ok)
                  /\ ran' = IF ok THEN Completed(ran, "eager") ELSE ran
    /\ before' = store'

\* XarrayDatasetWriter.write_lazy up to the start of the computation:
\* writer.sync(compute=False) turns every deferred source into a chunk task
\* and empties the writer's lists, or raises and leaves them;
\* stateful_store_reduce is entered.
WriteLazy ==
    /\ CanCall("write_lazy")
    /\ before' = store
    /\ UNCHANGED <<has_dask, mode, dataset, entry, hint, store, initialized,
                   eager_done, store0>>
    /\ \E split_every \in SplitEveryArgs :
         IF write_lazy_not_initialized
         THEN /\ lastop' = [name |-> "write_lazy", result |-> "ValueError"]
              /\ pc' = After("write_lazy", FALSE)
              /\ stats' = StartStats
              /\ UNCHANGED <<writer, split, tasks, handles, items, level, ran>>
         ELSE IF no_writer(writer)
         THEN /\ lastop' = [name |-> "write_lazy", result |-> "AttributeError"]
              /\ pc' = After("write_lazy", FALSE)
              /\ stats' = StartStats
              /\ UNCHANGED <<writer, split, tasks, handles, items, level, ran>>
         ELSE IF no_sources(writer)
         THEN /\ lastop' = [name |-> "write_lazy", result |-> "ok"]
              /\ pc' = After("write_lazy", TRUE)
              /\ stats' = StartStats
              /\ ran' = Completed(ran, "lazy")
              /\ UNCHANGED <<writer, split, tasks, handles, items, level>>
         ELSE LET n == Len(writer.sources) IN
              \/ /\ lastop' = [name |-> "write_lazy", result |-> "SyncError"]
                 /\ pc' = After("write_lazy", FALSE)
                 /\ stats' = StartStats
                 /\ ran' = Failed(ran)
                 /\ UNCHANGED <<writer, split, tasks, handles, items, level>>
              \/ /\ tasks' = spawn_tasks(writer)
                 /\ handles' = [i \in 1..n |-> EmptyStore]
                 /\ writer' = [writer EXCEPT !.sources = <<>>, !.targets = <<>>]
                 /\ split' = IF split_every = NoSplit THEN DefaultSplitEvery
                             ELSE split_every
                 /\ items' = [i \in 1..n |-> extract_stores(tasks'[i])]
                 /\ level' = 0
                 /\ stats' = [StartStats EXCEPT !.spawned = @ + n,
                                                !.reducer = @ + 1]
                 /\ lastop' = [name |-> "write_lazy", result |-> "running"]
                 /\ pc' = "lazy"
                 /\ UNCHANGED ran

\* A computation that goes on as soon as one chunk task has completed.
AnyDone == \E i \in 1..Len(tasks) : tasks[i].status = "done"

AllDone == \A i \in 1..Len(tasks) : tasks[i].status = "done"

\* A chunk task writes its chunk into the handle derived for it.
ChunkTaskRun(i) ==
    /\ pc = "lazy"
    /\ tasks[i].status = "pending"
    /\ tasks' = [tasks EXCEPT ![i].status = "done"]
    /\ stats' = [stats EXCEPT !.done = @ + 1]
    /\ handles' = [handles EXCEPT ![tasks[i].store] = chunk_write(@, tasks[i])]
    /\ UNCHANGED <<has_dask, mode, dataset, store, initialized, writer, entry,
                   hint, pc, split, items, level, lastop, eager_done, before,
                   store0, ran>>

\* write_lazy is left (it returned or raised): its locals, the chunk tasks
\* and their handles are dropped.
LeaveWriteLazy ==
    /\ tasks' = <<>>
    /\ handles' = <<>>
    /\ items' = <<>>
    /\ split' = NoSplit
    /\ level' = 0
    /\ before' = store'

\* A chunk task fails: the computation raises out of write_lazy.
ChunkTaskFail(i) ==
    /\ pc = "lazy"
    /\ tasks[i].status = "pending"
    /\ lastop' = [name |-> "write_lazy", result |-> "TaskExecutionError"]
    /\ pc' = After("write_lazy", FALSE)
    /\ store' = on_reduce_error(store, handles)
    /\ ran' = Failed(ran)
    /\ UNCHANGED <<has_dask, mode, dataset, initialized, writer, entry, hint,
                   stats, eager_done, store0>>
    /\ LeaveWriteLazy

\* One level of stateful_store_reduce: the items are partitioned into groups
\* of at most split_every and each group is aggregated with merge_stores.
ReduceLevel ==
    /\ pc = "lazy"
    /\ AllDone
    /\ Len(items) > 1
    /\ level < MaxLevels
    /\ LET r == ReduceGroups(handles, partition_all(split, items))
       IN  /\ handles' = r.heap
           /\ items' = r.items
           /\ stats' = [stats EXCEPT !.combine = @ + r.combines,
                                     !.inner = @ + r.merges]
    /\ level' = level + 1
    /\ UNCHANGED <<has_dask, mode, dataset, store, initialized, writer, entry,
                   hint, pc, split, tasks, lastop, eager_done, before, store0,
                   ran>>

\* The store.merge calls made by the merge_stores calls on the groups before
\* the k-th.
RECURSIVE MergesBefore(_, _)
MergesBefore(groups, k) ==
    IF k <= 1 THEN 0
    ELSE MergesBefore(groups, k - 1) + (Len(groups[k - 1]) - 1)

\* A level of the reduction in which the merge_stores call on the k-th group
\* raises, in other.change_set_bytes() or in store.merge, after m of its
\* merges: the computation raises out of write_lazy.
ReduceLevelFail ==
    /\ pc = "lazy"
    /\ AllDone
    /\ Len(items) > 1
    /\ LET groups == partition_all(split, items)
       IN  \E k \in 1..Len(groups) : \E m \in 0..(Len(groups[k]) - 2) :
           \E in_merge \in BOOLEAN :
              stats' = [stats EXCEPT
                          !.combine = @ + k,
                          !.inner = @ + MergesBefore(groups, k) + m
                                      + (IF in_merge THEN 1 ELSE 0)]
    /\ lastop' = [name |-> "write_lazy", result |-> "ReduceError"]
    /\ pc' = After("write_lazy", FALSE)
    /\ store' = on_reduce_error(store, handles)
    /\ ran' = Failed(ran)
    /\ UNCHANGED <<has_dask, mode, dataset, initialized, writer, entry, hint,
                   eager_done, store0>>
    /\ LeaveWriteLazy

\* The last line of write_lazy raises: merged_store.change_set_bytes() before
\* merge is called, or the merge on the canonical store, which detects a
\* conflict and leaves the store as it is.
WriteLazyMergeFail ==
    /\ pc = "lazy"
    /\ AllDone
    /\ Len(items) = 1
    /\ \/ /\ lastop' = [name |-> "write_lazy", result |-> "ChangeSetError"]
          /\ stats' = stats
       \/ /\ lastop' = [name |-> "write_lazy", result |-> "MergeConflictError"]
          /\ stats' = [stats EXCEPT !.merge = @ + 1]
    /\ pc' = After("write_lazy", FALSE)
    /\ store' = store
    /\ ran' = Failed(ran)
    /\ UNCHANGED <<has_dask, mode, dataset, initialized, writer, entry, hint,
                   eager_done, store0>>
    /\ LeaveWriteLazy

\* The last line of write_lazy: the change-set of the one store the reduction
\* returned is merged into the canonical store.
WriteLazyMerge ==
    /\ pc = "lazy"
    /\ AllDone
    /\ Len(items) = 1
    /\ LET r == write_lazy_merge(store, handles[items[1]])
       IN  /\ store' = r.store
           /\ stats' = [stats EXCEPT !.merge = @ + r.calls]
    /\ lastop' = [name |-> "write_lazy", result |-> "ok"]
    /\ pc' = After("write_lazy", TRUE)
    /\ ran' = Completed(ran, "lazy")
    /\ UNCHANGED <<has_dask, mode, dataset, initialized, writer, entry, hint,
                   eager_done, store0>>
    /\ LeaveWriteLazy

Next ==
    \/ WriteMetadata
    \/ WriteEager
    \/ WriteLazy
    \/ \E i \in 1..Len(tasks) : ChunkTaskRun(i)
    \/ \E i \in 1..Len(tasks) : ChunkTaskFail(i)
    \/ ReduceLevel
    \/ ReduceLevelFail
    \/ WriteLazyMerge
    \/ WriteLazyMergeFail

Spec == Init /\ [][Next]_vars

\* ------------------------------------------------------------------ reduction alone
\* The orders in which n chunks can reach the reduction.
Orders(n) == Permutations(1..n)

\* The lazy phase of a dataset of n chunked variables, taken in any order and
\* reduced with any split_every from 1 to n, started at the point where
\* every chunk task has written its chunk into its own handle.
LazyPhaseComputed(n, p, s0, split_every) ==
    LET ds == [i \in 1..n |->
                 [name |-> p[i], val |-> ValueOf(p[i]), chunked |-> TRUE]]
        m == dump_to_store(open_group(s0, "a").store, NewWriter, ds, n)
        ts == spawn_tasks(m.writer)
    IN  /\ has_dask = TRUE
        /\ mode = "a"
        /\ dataset = ds
        /\ store0 = s0
        /\ store = m.store
        /\ writer = [m.writer EXCEPT !.sources = <<>>, !.targets = <<>>]
        /\ tasks = [i \in 1..n |-> [ts[i] EXCEPT !.status = "done"]]
        /\ handles = [i \in 1..n |-> chunk_write(EmptyStore, ts[i])]
        /\ items = [i \in 1..n |-> extract_stores(ts[i])]
        /\ split = split_every
        /\ stats = [ZeroStats EXCEPT !.spawned = n, !.done = n, !.reducer = 1]
        /\ entry = "api"
        /\ hint = NoSplit
        /\ pc = "lazy"
        /\ initialized = TRUE
        /\ level = 0
        /\ lastop = [name |-> "write_lazy", result |-> "running"]
        /\ eager_done = FALSE
        /\ before = store
        /\ ran = Declared(NothingRan, TRUE)

InitReduce ==
    \E n \in 1..MaxItems : \E p \in Orders(n) : \E s0 \in {EmptyStore, OldStore} :
    \E split_every \in 1..n :
       LazyPhaseComputed(n, p, s0, split_every)

NextReduce ==
    \/ ReduceLevel
    \/ ReduceLevelFail
    \/ WriteLazyMerge
    \/ WriteLazyMergeFail

SpecReduce == InitReduce /\ [][NextReduce]_vars

\* Where a level of the reduction can be taken: the guard of ReduceLevel, which
\* assigns every variable from the state and always changes level.
ReduceLevelEnabled ==
    pc = "lazy" /\ AllDone /\ Len(items) > 1 /\ level < MaxLevels

\* stateful_store_reduce(..., compute=True) blocks until the computation has
\* ended: a level that can be taken is taken, and the last line of write_lazy
\* is executed once the reduction has returned, unless something raises. The
\* first conjunct is weak fairness of ReduceLevel, with ReduceLevelEnabled for
\* ENABLED <<ReduceLevel>>_vars.
ReduceFairness ==
    /\ []<>~ReduceLevelEnabled \/ []<><<ReduceLevel>>_vars
    /\ WF_vars(WriteLazyMerge)

SpecReduceFair == SpecReduce /\ ReduceFairness

\* ------------------------------------------------------------------ levels
\* The chunks in input order and in reverse order.
InOrder(n) == {[i \in 1..n |-> i], [i \in 1..n |-> n + 1 - i]}

\* The lazy phase of up to MaxChunks chunks, reduced with any split_every from
\* 1 to their number.
InitLevels ==
    \E n \in 1..MaxChunks : \E p \in InOrder(n) : \E s0 \in {EmptyStore, OldStore} :
    \E split_every \in 1..n :
       LazyPhaseComputed(n, p, s0, split_every)

SpecLevels == InitLevels /\ [][NextReduce]_vars

SpecLevelsFair == SpecLevels /\ ReduceFairness

\* ------------------------------------------------------------------ claims
Names == {dataset[i].name : i \in 1..Len(dataset)}

VarAt(l) == CHOOSE i \in 1..Len(dataset) : dataset[i].name = l

\* The variables whose writes are deferred are those add takes for chunked.
AnyChunked == \E i \in 1..Len(dataset) : is_chunked_array(dataset[i])

AnyEager == \E i \in 1..Len(dataset) : ~is_chunked_array(dataset[i])

\* The store st as the write found it once its group was opened in the
\* writer's mode: emptied by "w", kept otherwise.
Opened(st) ==
    IF mode = "w"
    THEN [group |-> TRUE, meta |-> {}, data |-> [l \in Locs |-> NoVal]]
    ELSE [group |-> TRUE, meta |-> st.meta, data |-> st.data]

\* The canonical store once the metadata and the eager values of the dataset,
\* and nothing else, were put on top of the store st.
WithEagerOnly(st) ==
    [group |-> st.group,
     meta |-> st.meta \cup Names,
     data |-> [l \in Locs |->
                 IF l \in Names /\ ~is_chunked_array(dataset[VarAt(l)])
                 THEN dataset[VarAt(l)].val ELSE st.data[l]]]

\* The canonical store once the whole dataset was put on top of the store st.
WithDataset(st) ==
    [group |-> st.group,
     meta |-> st.meta \cup Names,
     data |-> [l \in Locs |->
                 IF l \in Names THEN dataset[VarAt(l)].val ELSE st.data[l]]]

\* C1: once to_icechunk has returned, the canonical store holds the array of
\* every variable of the dataset, eager or chunked, and the variable's value
\* at its location, on top of the store as the write's mode opened it.
C1_RoundTrip ==
    (entry = "to_icechunk" /\ pc = "returned") =>
        /\ \A i \in 1..Len(dataset) :
              /\ dataset[i].name \in store.meta
              /\ store.data[dataset[i].name] = dataset[i].val
        /\ store = WithDataset(Opened(store0))

C1_Witness ==
    /\ entry = "to_icechunk" /\ pc = "returned"
    /\ AnyChunked /\ AnyEager
    /\ stats.spawned >= 2
    /\ store0 = OldStore

TaskFailedInToIcechunk ==
    /\ entry = "to_icechunk"
    /\ pc = "raised"
    /\ lastop = [name |-> "write_lazy", result |-> "TaskExecutionError"]

\* C2 as stated: when a chunk task fails, the canonical store after the
\* aborted to_icechunk equals the store as it was before the write began.
C2_StoreAsBeforeTheWrite == TaskFailedInToIcechunk => store = store0

\* C2, amended: when a chunk task fails, the canonical store after the aborted
\* to_icechunk is the store as it was before the write, opened in the write's
\* mode, plus the declared metadata and the eager values; it holds no value of
\* any chunked variable.
C2_StoreAsBeforeTheLazyPhase ==
    TaskFailedInToIcechunk =>
        /\ store = WithEagerOnly(Opened(store0))
        /\ \A i \in 1..Len(dataset) :
              is_chunked_array(dataset[i]) =>
                 store.data[dataset[i].name] = Opened(store0).data[dataset[i].name]

C2_Witness ==
    /\ TaskFailedInToIcechunk
    /\ AnyEager
    /\ stats.spawned >= 2
    /\ stats.done >= 1

\* C3: `before` is the canonical store at the call of write_lazy; when a chunk
\* task fails, write_lazy raises, the reduction is given up, merge was never
\* called on the canonical store and the store is what it was at the call,
\* whatever sibling tasks had completed.
C3_LazyAbort ==
    [][ /\ (pc # "lazy" /\ pc' = "lazy") => before' = store
        /\ (pc = "lazy" /\ pc' = "lazy") => (before' = before /\ store' = before)
        /\ (pc = "lazy" /\ lastop'.result = "TaskExecutionError") =>
              /\ pc' \in {"idle", "raised"}
              /\ lastop'.name = "write_lazy"
              /\ store' = before
              /\ stats'.merge = 0
              /\ tasks' = <<>> /\ items' = <<>> /\ handles' = <<>>
      ]_vars

C3_Witness ==
    /\ lastop = [name |-> "write_lazy", result |-> "TaskExecutionError"]
    /\ stats.spawned >= 3
    /\ stats.done >= 2
    /\ store = before

\* C4: write_eager or write_lazy called on a writer on which no write_metadata
\* call has run to its end raises at once and changes neither the canonical
\* store nor the writer.
C4_RaisesBeforeMetadata ==
    [][ (~ran.ever /\ pc \in {"idle", "ti_eager", "ti_lazy"}
         /\ lastop'.name \in {"write_eager", "write_lazy"}) =>
           /\ lastop'.result \in {"ValueError", "AttributeError"}
           /\ store' = store
           /\ writer' = writer
      ]_vars

\* C5: a lazy phase that spawned chunk tasks has called merge on the canonical
\* store exactly once when it returns, never more than once, and not at all
\* while it runs or when it raises before its last line; that call is made when
\* one store is left by the reduction and, when it returns, has merged that
\* store's change-set into the store as it was at the call.
C5_SingleMerge ==
    [][ /\ (lastop'.name = "write_lazy" /\ stats'.spawned >= 1) =>
              stats'.merge =
                 (IF lastop'.result \in {"ok", "MergeConflictError"} THEN 1 ELSE 0)
        /\ (pc = "lazy" /\ stats'.merge # stats.merge) =>
              (AllDone /\ Len(items) = 1 /\ stats.merge = 0)
        /\ (pc = "lazy" /\ lastop'.result = "ok") =>
              /\ Len(items) = 1
              /\ store' = merge(before, change_set_bytes(handles[items[1]]))
      ]_vars

C5_Witness ==
    /\ lastop = [name |-> "write_lazy", result |-> "ok"]
    /\ stats.spawned >= 3
    /\ stats.combine >= 2
    /\ stats.merge = 1

NoCalls(st) ==
    st.reducer = 0 /\ st.spawned = 0 /\ st.combine = 0 /\ st.inner = 0 /\ st.merge = 0

\* C6: write_lazy on an initialized writer without deferred sources returns at
\* once: no reducer call, no chunk task, no merge, canonical store and writer
\* unchanged; and a to_icechunk of a dataset without chunked variables returns
\* with no reducer call, no chunk task and no merge.
C6_LazyNoOp ==
    [][ /\ (pc \in {"idle", "ti_lazy"} /\ lastop'.name = "write_lazy"
            /\ initialized /\ writer.exists /\ writer.sources = <<>>) =>
              /\ lastop'.result = "ok"
              /\ pc' \in {"idle", "returned"}
              /\ store' = store
              /\ writer' = writer
              /\ initialized' = initialized
              /\ eager_done' = eager_done
              /\ tasks' = <<>> /\ handles' = <<>> /\ items' = <<>>
              /\ NoCalls(stats')
        /\ (pc' = "returned" /\ ~AnyChunked) => NoCalls(stats')
      ]_vars

C6_Witness ==
    /\ entry = "to_icechunk" /\ pc = "returned"
    /\ ~AnyChunked
    /\ Len(dataset) >= 2
    /\ stats.writes >= 2
    /\ stats.reducer = 0

\* C7: once a write_eager call has completed and write_metadata was not called
\* since, the eager lists are empty and every further write_eager call returns
\* without writing anything: canonical store and writer stay as they are.
C7_EagerIdempotent ==
    [][ /\ eager_done' =>
              (writer'.eager_sources = <<>> /\ writer'.eager_targets = <<>>)
        /\ (pc = "idle" /\ lastop'.name = "write_eager" /\ eager_done) =>
              /\ lastop'.result = "ok"
              /\ stats'.writes = 0
              /\ store' = store
              /\ writer' = writer
              /\ initialized' = initialized
              /\ eager_done'
      ]_vars

C7_Witness ==
    /\ entry = "api" /\ pc = "idle"
    /\ eager_done
    /\ lastop = [name |-> "write_eager", result |-> "ok"]
    /\ stats.writes = 0
    /\ AnyEager
    /\ \A i \in 1..Len(dataset) :
          ~dataset[i].chunked => store.data[dataset[i].name] = dataset[i].val

\* The union of the chunks of the dataset: a function of the set of chunks,
\* not of their order.
UnionOfChunks ==
    [group |-> FALSE,
     meta |-> {},
     data |-> [l \in Locs |-> IF l \in Names THEN dataset[VarAt(l)].val ELSE NoVal]]

C8_UnionFromTwo ==
    <>(pc # "lazy" \/ (split = 1 /\ Len(items) > 1)
                   \/ (Len(items) = 1 /\ handles[items[1]] = UnionOfChunks))

C8_OrderAndGroupingIrrelevant ==
    /\ (pc = "lazy" /\ Len(items) = 1) => handles[items[1]] = UnionOfChunks
    /\ (pc = "idle" /\ lastop.result = "ok") =>
          store = WithDataset(Opened(store0))

C8_Witness ==
    /\ pc = "idle" /\ lastop.result = "ok"
    /\ Len(dataset) >= 4
    /\ stats.combine >= 3
    /\ dataset[1].name > dataset[2].name
    /\ store0 = OldStore

\* The chunks of the tasks ts written one after another, in the order p, into
\* the single handle st.
RECURSIVE WriteSequentially(_, _, _, _)
WriteSequentially(st, ts, p, k) ==
    IF k = 0 THEN st
    ELSE chunk_write(WriteSequentially(st, ts, p, k - 1), ts[p[k]])

\* C9: when the lazy phase returns, the canonical store equals the store at
\* the call with the chunks written into it one after another, in every order.
C9_EqualsSequentialWrites ==
    [][ (pc = "lazy" /\ lastop'.result = "ok") =>
           \A p \in Orders(Len(tasks)) :
              store' = WriteSequentially(before, tasks, p, Len(tasks))
      ]_vars

C9_Witness ==
    /\ pc = "idle" /\ lastop.result = "ok"
    /\ Len(dataset) >= 4
    /\ stats.combine >= 2
    /\ stats.inner = 3
    /\ store0 = EmptyStore

\* C10: merge_stores of a single store returns that store, leaves every handle
\* as it is and calls merge zero times; a lazy phase of one chunk task makes no
\* merge call but the final one on the canonical store.
C10_SingleItemIdentity ==
    /\ pc = "lazy" =>
          \A id \in 1..Len(handles) :
             merge_stores(handles, <<id>>) =
                [heap |-> handles, ret |-> id, calls |-> 0]
    /\ (lastop = [name |-> "write_lazy", result |-> "ok"] /\ stats.spawned = 1) =>
          (stats.inner = 0 /\ stats.merge = 1)

C10_Witness ==
    /\ lastop = [name |-> "write_lazy", result |-> "ok"]
    /\ stats.spawned = 1
    /\ stats.merge = 1
    /\ stats.inner = 0
    /\ \E i \in 1..Len(dataset) :
          dataset[i].chunked /\ store.data[dataset[i].name] = dataset[i].val

C11_EndsFromTwo ==
    <>(pc # "lazy" \/ Len(items) = 1 \/ split = 1)

C11_TerminatesFromTwo ==
    [][ /\ (level' = level + 1 /\ split >= 2) =>
              (1 <= Len(items') /\ Len(items') < Len(items))
        /\ (level' = level + 1 /\ split = 1) =>
              (items' = items /\ handles' = handles /\ Len(items') > 1)
        /\ (pc' = "lazy" /\ split' >= 2 /\ Len(items') > 1) =>
              (level' < MaxLevels /\ stats'.done = stats'.spawned)
        /\ (pc = "lazy" /\ pc' = "idle" /\ lastop'.result = "ok") =>
              (Len(items) = 1 /\ stats'.merge = 1)
      ]_vars

C11_Witness ==
    /\ pc = "idle"
    /\ lastop = [name |-> "write_lazy", result |-> "ok"]
    /\ stats.spawned >= 5
    /\ stats.combine >= 6
    /\ level = 0

\* C12: the split_every given to to_icechunk is the branching factor of the
\* tree reduction of that write: while the lazy phase of a to_icechunk called
\* with a split_every runs, the reduction groups its items by that number.
C12_HintIsBranchingFactor ==
    (entry = "to_icechunk" /\ pc = "lazy" /\ hint # NoSplit) => split = hint

\* A chunk task completes in this step / the final merge of write_lazy is this step.
TaskStep == stats'.done = stats.done + 1

FinalMergeStep ==
    /\ pc = "lazy"
    /\ \A i \in 1..Len(tasks) : tasks[i].status = "done"
    /\ Len(items) = 1
    /\ lastop' = [name |-> "write_lazy", result |-> "ok"]
    /\ stats'.merge = stats.merge + 1

PrivateHandles ==
    /\ Len(handles) = Len(tasks)
    /\ \A i \in 1..Len(tasks) : tasks[i].store \in 1..Len(handles)
    /\ \A i, j \in 1..Len(tasks) : i # j => tasks[i].store # tasks[j].store

\* C13 as stated: the canonical store changes only in a step of the eager
\* phase or in the final merge step of the lazy phase.
C13_OnlyEagerAndFinalMerge ==
    [][ store' # store =>
           \/ (pc # "lazy" /\ lastop'.name = "write_eager")
           \/ FinalMergeStep
      ]_vars

\* C13, amended: every chunk task has a handle of its own and its step changes
\* that handle only, never the canonical store; the levels of the reduction
\* change handles only; the canonical store changes only in a step of the
\* coordinator: metadata declaration or eager phase, while no chunk task
\* exists, or the final merge, once every chunk task is done and one store
\* is left.
C13_OnlyTheCoordinator ==
    [][ /\ PrivateHandles /\ PrivateHandles'
        /\ store' # store =>
              \/ /\ pc # "lazy" /\ tasks = <<>> /\ tasks' = <<>>
                 /\ lastop'.name \in {"write_metadata", "write_eager"}
              \/ FinalMergeStep
        /\ TaskStep =>
              /\ store' = store
              /\ \E i \in 1..Len(tasks) :
                    /\ tasks[i].status = "pending" /\ tasks'[i].status = "done"
                    /\ handles'[tasks[i].store].data[tasks[i].target] =
                          tasks[i].source.val
                    /\ \A h \in 1..Len(handles) :
                          h # tasks[i].store => handles'[h] = handles[h]
        /\ level' = level + 1 => (store' = store /\ tasks' = tasks)
      ]_vars

C13_Witness ==
    /\ pc = "lazy"
    /\ level >= 1
    /\ stats.done >= 3
    /\ stats.inner >= 1
    /\ store = before
    /\ store0 = EmptyStore
    /\ store.meta # {}
    /\ \A i \in 1..Len(tasks) :
          /\ store.data[tasks[i].target] = NoVal
          /\ handles[tasks[i].store].data[tasks[i].target] = tasks[i].source.val

\* C14: while write_lazy runs the canonical store is the store of the call and
\* holds nothing of the lazy work; no level of the reduction starts before
\* every chunk task has completed; the canonical store changes in one step
\* only, taken when every chunk task has completed and the reduction has come
\* down to one store, and that step is the one in which write_lazy returns,
\* with every chunk in the canonical store.
C14_SingleSyncPoint ==
    [][ /\ pc = "lazy" => store = before
        /\ level' = level + 1 =>
              (stats.done = stats.spawned
               /\ \A i \in 1..Len(tasks) : tasks[i].status = "done")
        /\ (pc = "lazy" /\ (store' # store \/ lastop'.result = "ok")) =>
              /\ stats.done = stats.spawned
              /\ \A i \in 1..Len(tasks) : tasks[i].status = "done"
              /\ Len(items) = 1
              /\ pc' \in {"idle", "returned"}
              /\ lastop'.result = "ok"
              /\ \A i \in 1..Len(tasks) :
                    store'.data[tasks[i].target] = tasks[i].source.val
      ]_vars

C14_Witness ==
    /\ lastop = [name |-> "write_lazy", result |-> "ok"]
    /\ stats.spawned >= 3
    /\ stats.done = stats.spawned
    /\ stats.inner >= 2
    /\ store0 = EmptyStore
    /\ store # store0
    /\ \A i \in 1..Len(dataset) :
          dataset[i].chunked => store.data[dataset[i].name] = dataset[i].val

\* C15: inside to_icechunk, write_metadata is the first call, write_eager is
\* called only when write_metadata has returned and write_lazy only when
\* write_eager has returned; a call that raises ends to_icechunk, and when
\* write_metadata or write_eager raised no chunk task was or will be created.
C15_PhaseOrder ==
    [][ entry = "to_icechunk" =>
          /\ pc # "raised" /\ pc # "returned"
          /\ (lastop'.name = "write_metadata") =>
                (pc = "ti_metadata" /\ lastop.name = "none")
          /\ (lastop'.name = "write_eager") =>
                lastop = [name |-> "write_metadata", result |-> "ok"]
          /\ (lastop'.name = "write_lazy" /\ lastop.name # "write_lazy") =>
                (lastop = [name |-> "write_eager", result |-> "ok"] /\ eager_done)
          /\ (lastop'.name \in {"write_metadata", "write_eager"}
              /\ lastop'.result # "ok") =>
                /\ pc' = "raised"
                /\ stats'.spawned = 0 /\ stats'.reducer = 0
                /\ tasks' = <<>>
          /\ stats'.spawned > 0 => (initialized' /\ eager_done')
      ]_vars

C15_Witness ==
    /\ entry = "to_icechunk"
    /\ pc = "raised"
    /\ lastop = [name |-> "write_eager", result |-> "WriteError"]
    /\ writer.sources # <<>>
    /\ stats.writes >= 1
    /\ stats.spawned = 0

\* The positions of the g-th contiguous group of at most b among n items.
GroupOf(g, b, n) == {j \in 1..n : (g - 1) * b < j /\ j <= g * b}

\* The pending data of the handles at the positions js of the items, put
\* together.
DataOf(js) ==
    [l \in Locs |->
        IF \E j \in js : handles[items[j]].data[l] # NoVal
        THEN handles[items[CHOOSE j \in js : handles[items[j]].data[l] # NoVal]].data[l]
        ELSE NoVal]

\* The sizes of the levels of 6 items reduced with branching factor 2.
SixByTwo == <<6, 3, 2, 1>>

\* C16: a level of the reduction cuts its items, in input order, into
\* contiguous groups of at most split items; every group is combined by one call
\* into the store of its first item, which takes the place of the group, and
\* every other item of the group is merged exactly once; the one store left at
\* the end holds every chunk, after one merge per chunk task but the first;
\* 6 items and branching factor 2 give levels of 6, 3, 2 and 1 items.
C16_ContiguousGroups ==
    [][ /\ level' = level + 1 =>
              /\ Len(items') = (Len(items) + split - 1) \div split
              /\ \A g \in 1..Len(items') :
                    /\ items'[g] = items[(g - 1) * split + 1]
                    /\ handles'[items'[g]].data =
                          DataOf(GroupOf(g, split, Len(items)))
              /\ stats'.combine = stats.combine + Len(items')
              /\ stats'.inner = stats.inner + (Len(items) - Len(items'))
        /\ (pc = "lazy" /\ Len(items) = 1) =>
              /\ handles[items[1]] = UnionOfChunks
              /\ stats.inner = stats.spawned - 1
        /\ (pc = "lazy" /\ stats.spawned = 6 /\ split = 2) =>
              (level <= 3 /\ Len(items) = SixByTwo[level + 1])
      ]_vars

C16_Witness ==
    /\ pc = "lazy"
    /\ stats.spawned = 6
    /\ split = 2
    /\ level = 3
    /\ Len(items) = 1
    /\ stats.combine = 6
    /\ stats.inner = 5
    /\ dataset[1].name = 6

\* The handles of the chunk tasks and, as one more handle, the canonical store.
AllHandles == handles \o <<store>>

\* The argument lists of up to three different handles.
ArgLists ==
    LET ids == 1..Len(AllHandles)
    IN  {<<a>> : a \in ids}
        \cup {<<a, b>> : <<a, b>> \in {x \in ids \X ids : x[1] # x[2]}}
        \cup {<<x[1], x[2], x[3]>> : x \in
                 {y \in ids \X ids \X ids :
                     y[1] # y[2] /\ y[1] # y[3] /\ y[2] # y[3]}}

\* The handle `first` with the change-sets of the handles `others` put on top
\* of it, one after the other.
OnTop(h, first, others) ==
    IF others = <<>> THEN h[first]
    ELSE IF Len(others) = 1 THEN merge(h[first], change_set_bytes(h[others[1]]))
    ELSE merge(merge(h[first], change_set_bytes(h[others[1]])),
               change_set_bytes(h[others[2]]))

\* C17: merge_stores(primary, others...) returns primary, calls merge once
\* per other, leaves primary as itself with the change-set of each of the
\* others on top in argument order (what the last one wrote is what primary
\* holds), and leaves every other handle, the merged ones included, as it was;
\* a level of the reduction changes the stores that stand for a group only.
C17_MergeStoresFrame ==
    [][ /\ pc = "lazy" =>
              \A a \in ArgLists :
                 LET r == merge_stores(AllHandles, a)
                     last == a[Len(a)]
                 IN  /\ r.ret = a[1]
                     /\ r.calls = Len(a) - 1
                     /\ r.heap[a[1]] = OnTop(AllHandles, a[1], Tail(a))
                     /\ \A l \in Locs :
                           AllHandles[last].data[l] # NoVal =>
                              r.heap[a[1]].data[l] = AllHandles[last].data[l]
                     /\ \A id \in 1..Len(AllHandles) :
                           id # a[1] => r.heap[id] = AllHandles[id]
        /\ level' = level + 1 =>
              \A id \in 1..Len(handles) :
                 (\A g \in 1..Len(items') : items'[g] # id) =>
                    handles'[id] = handles[id]
      ]_vars

C17_Witness ==
    /\ pc = "lazy"
    /\ level >= 1
    /\ Len(items) >= 2
    /\ store0 = OldStore
    /\ \E id \in 1..Len(handles) :
          /\ \A g \in 1..Len(items) : items[g] # id
          /\ handles[id] = chunk_write(EmptyStore, tasks[id])
          /\ \E g \in 1..Len(items) :
                /\ handles[items[g]].data[tasks[id].target] = tasks[id].source.val
                /\ store.data[tasks[id].target] # tasks[id].source.val

\* C18: once write_metadata has run to its end, write_eager and write_lazy are
\* accepted in either order; write_eager leaves the deferred writes and
\* write_lazy the eager writes as they are; when write_eager has completed the
\* value of every in-memory variable is in the canonical store, when write_lazy
\* has completed the value of every chunked variable is, whether or not the
\* other has run; neither phase changes the group, the arrays or a location
\* that is not a variable's; so that when both have completed the canonical
\* store is the store write_metadata left with the value of every variable on
\* top, whichever completed first.
C18_EagerLazyIndependent ==
    [][ /\ (ran.declared /\ pc \in {"idle", "ti_eager", "ti_lazy"}
            /\ lastop'.name \in {"write_eager", "write_lazy"}) =>
              lastop'.result # "ValueError"
        /\ lastop'.name = "write_eager" =>
              /\ writer'.sources = writer.sources
              /\ writer'.targets = writer.targets
              /\ ran'.lazy = ran.lazy
              /\ tasks' = tasks
        /\ lastop'.name = "write_lazy" =>
              /\ writer'.eager_sources = writer.eager_sources
              /\ writer'.eager_targets = writer.eager_targets
              /\ eager_done' = eager_done
        /\ (ran'.declared /\ eager_done') =>
              \A i \in 1..Len(dataset) :
                 ~is_chunked_array(dataset[i]) =>
                    store'.data[dataset[i].name] = dataset[i].val
        /\ (ran'.declared /\ ran'.lazy = "ok") =>
              \A i \in 1..Len(dataset) :
                 is_chunked_array(dataset[i]) =>
                    store'.data[dataset[i].name] = dataset[i].val
        /\ lastop'.name \in {"write_eager", "write_lazy"} =>
              /\ store'.group = store.group
              /\ store'.meta = store.meta
              /\ \A l \in Locs \ Names : store'.data[l] = store.data[l]
        /\ (ran'.declared /\ eager_done' /\ ran'.lazy = "ok") =>
              /\ Names \subseteq store'.meta
              /\ \A i \in 1..Len(dataset) :
                    store'.data[dataset[i].name] = dataset[i].val
      ]_vars

C18_Witness ==
    /\ ran = [declared |-> TRUE, lazy |-> "ok", ever |-> TRUE]
    /\ eager_done
    /\ lastop = [name |-> "write_eager", result |-> "ok"]
    /\ stats.writes >= 1
    /\ AnyChunked /\ AnyEager
    /\ store0 = EmptyStore
    /\ store = WithDataset(Opened(store0))

\* The store st once the first k eager entries of the writer w were written.
WithFirst(st, w, k) ==
    [group |-> st.group,
     meta |-> st.meta,
     data |-> [l \in Locs |->
                 IF \E j \in 1..k : w.eager_targets[j] = l
                 THEN w.eager_sources[CHOOSE j \in 1..k : w.eager_targets[j] = l].val
                 ELSE st.data[l]]]

\* C19: when a write of write_eager raises, the error reaches the caller, the
\* writes made before it are in the canonical store and the eager lists are
\* what they were; a write_eager called again after that writes every eager
\* entry, those already written included, and then resets the lists.
C19_EagerFailureKeepsLists ==
    [][ /\ (lastop'.name = "write_eager" /\ lastop'.result = "WriteError") =>
              /\ pc' \in {"idle", "raised"}
              /\ writer' = writer
              /\ writer.eager_sources # <<>>
              /\ eager_done' = eager_done
              /\ stats'.writes < Len(writer.eager_sources)
              /\ store' = WithFirst(store, writer, stats'.writes)
        /\ (lastop = [name |-> "write_eager", result |-> "WriteError"]
            /\ lastop' = [name |-> "write_eager", result |-> "ok"]) =>
              /\ stats'.writes = Len(writer.eager_sources)
              /\ stats'.writes >= 1
              /\ store' = WithFirst(store, writer, Len(writer.eager_sources))
              /\ writer'.eager_sources = <<>> /\ writer'.eager_targets = <<>>
      ]_vars

C19_Witness ==
    /\ entry = "api"
    /\ lastop = [name |-> "write_eager", result |-> "WriteError"]
    /\ stats.writes >= 1
    /\ Len(writer.eager_sources) >= 2
    /\ store0 = EmptyStore
    /\ store.data[writer.eager_targets[1]] = writer.eager_sources[1].val
    /\ store.data[writer.eager_targets[Len(writer.eager_sources)]] = NoVal

====
